---- MODULE Spec2Model ----
(***************************************************************************)
(* A model of impedance/plotting.py: the FixedOrderFormatter tick          *)
(* formatter, the static Nyquist renderer plot_nyquist and the interactive *)
(* Nyquist/Bode renderer plot_altair.                                      *)
(*                                                                         *)
(* Numbers.  Impedance samples are complex numbers with integer real and   *)
(* imaginary parts; on such values the subtractions, additions and         *)
(* comparisons of the code are exact in double precision, so integer       *)
(* arithmetic computes what the code computes.  Three functions of the     *)
(* code leave the integers and are modelled by an exact encoding of their  *)
(* result:                                                                 *)
(*   log10  on the powers of ten 10^e (a scale is the fraction num/den of  *)
(*          two powers of ten), where its value is the integer e;          *)
(*   sqrt   in hundredths, rounded down (a fixed-point value);             *)
(*   atan   as the angle itself, encoded by the shortest integer vector    *)
(*          <<c, s>> that points in its direction (tan = s/c).             *)
(***************************************************************************)
EXTENDS Integers, Sequences, FiniteSets, TLC

\* ------------------------------------------------------------------ bounds
\* Longest impedance series Z handed to plot_nyquist.
MaxLen == 3
\* Number of redraws (visible-range changes) followed per axis.
MaxRedraws == 2
\* Most samples, all datasets together, in plot_altair's data_dict.
MaxSamples == 2

\* ------------------------------------------------------------ input values
\* A complex number, with numpy's field names.
Complex(re, im) == [real |-> re, imag |-> im]

\* The impedance samples the inputs are drawn from: the spec's example series
\* 100+0j, 80-20j, 60-40j, then -(80-20j), conj(80-20j) and one sample on the
\* imaginary axis.
ExampleZ == << Complex(100, 0), Complex(80, -20), Complex(60, -40) >>
NyquistValues == { Complex(100, 0), Complex(80, -20), Complex(60, -40),
                   Complex(-80, 20), Complex(0, -40) }

\* The samples plot_altair's datasets are drawn from: 80-20j, its negation, its
\* conjugate, and a sample on the imaginary axis (real part 0).
AltairValues == { Complex(80, -20), Complex(-80, 20), Complex(80, 20),
                  Complex(0, -40) }

\* Dataset labels, and the marker-style tags a dataset may carry: the line tag,
\* the point tag and a tag the code knows nothing of.  A dataset may also
\* carry no 'fmt' key at all.
Kinds == { "a", "b" }
Fmts == { "-", "o", "x" }

\* Sequences over S of length at most n.
SeqUpTo(S, n) == UNION { [1..m -> S] : m \in 0..n }

\* Positive scales: the fraction num/den of two powers of ten.
Scales == { [num |-> 1, den |-> 1], [num |-> 10, den |-> 1],
            [num |-> 100, den |-> 1], [num |-> 1000, den |-> 1],
            [num |-> 1, den |-> 10], [num |-> 1, den |-> 100],
            [num |-> 1, den |-> 1000] }

\* The visible ranges a redraw may hand to the formatter.
Ranges == { 1, 50, 2000 }

\* --------------------------------------------------------- numeric helpers
\* floor(log10(n)) for an integer n >= 1; exact on a power of ten.
RECURSIVE ILog10(_)
ILog10(n) == IF n < 10 THEN 0 ELSE 1 + ILog10(n \div 10)

\* np.log10 of a scale num/den.
log10(s) == ILog10(s.num) - ILog10(s.den)

RECURSIVE Pow10(_)
Pow10(e) == IF e = 0 THEN 1 ELSE 10 * Pow10(e - 1)

\* np.real, np.imag and the unary minus of an array, element-wise.
real(Zs) == [i \in 1..Len(Zs) |-> Zs[i].real]
imag(Zs) == [i \in 1..Len(Zs) |-> Zs[i].imag]
neg(xs) == [i \in 1..Len(xs) |-> -xs[i]]

\* ----------------------------------------------------- FixedOrderFormatter
\* __init__: keeps order_of_mag; ScalarFormatter.__init__ starts
\* orderOfMagnitude at 0.
FixedOrderFormatter(order_of_mag) ==
    [_order_of_mag |-> order_of_mag, orderOfMagnitude |-> 0]

\* What ScalarFormatter does when the override is lost: the exponent follows
\* the visible range.
ScalarFormatter_set_orderOfMagnitude(self, range) ==
    [self EXCEPT !.orderOfMagnitude = ILog10(range)]

\* The override: the range is not read.
_set_orderOfMagnitude(self, range) ==
    [self EXCEPT !.orderOfMagnitude = self._order_of_mag]

\* ------------------------------------------------------------------- state
VARIABLES
    pc,        \* where the call is: plot_nyquist "start" | "done"; plot_altair
               \* "loop" | "range" | "line" | "point" | "compose" |
               \* "returned" | "raised"; "idle" for the function not called
    Z,         \* plot_nyquist's impedance series
    scale,     \* plot_nyquist's scale
    ax,        \* the drawing surface
    redraws,   \* per axis, the _set_orderOfMagnitude calls made so far
    data_dict, \* plot_altair's dataset collection: its keys in insertion
               \* order, and the entry of each key
    n,         \* number of keys the accumulation loop has visited
    Z_df,      \* the flattened table, a sequence of rows
    dom,       \* rng and the Nyquist domain min_x, max_x, min_y, max_y
    nyquists, bode_mags, bode_phss,   \* the layers built so far
    chart      \* the returned figure

nyquistVars == << Z, scale, ax, redraws >>
altairVars == << data_dict, n, Z_df, dom, nyquists, bode_mags, bode_phss, chart >>
vars == << pc, nyquistVars, altairVars >>

\* ------------------------------------------------------------ plot_nyquist
Axes == { "xaxis", "yaxis" }

\* A fresh matplotlib Axes: nothing drawn, automatic aspect, plain formatters.
BlankAxes == [x |-> << >>, y |-> << >>, fmt |-> "", aspect |-> "auto",
              nbins |-> [a \in Axes |-> 0],
              formatter |-> [a \in Axes |-> FixedOrderFormatter(0)]]

\* The exponent with the minus sign forgotten.
TickExponentNoMinus(s) == log10(s)

\* -np.log10(scale)
TickExponent(s) == -log10(s)

\* ax.plot(np.real(Z), np.imag(Z), fmt): the vertical axis not negated.
PlottedNoMinus(a, Zs, fmt) ==
    [a EXCEPT !.x = real(Zs), !.y = imag(Zs), !.fmt = fmt]

\* ax.plot(np.real(Z), -np.imag(Z), fmt)
Plotted(a, Zs, fmt) ==
    [a EXCEPT !.x = real(Zs), !.y = neg(imag(Zs)), !.fmt = fmt]

\* plot_nyquist(ax, Z, scale), from the plot to the return.
PlotNyquist ==
    /\ pc = "start"
    /\ ax' = [Plotted(ax, Z, ".-") EXCEPT
                !.aspect = "equal",
                !.nbins = [a \in Axes |-> 5],
                !.formatter = [a \in Axes |->
                                 FixedOrderFormatter(TickExponent(scale))]]
    /\ pc' = "done"
    /\ UNCHANGED << Z, scale, redraws, altairVars >>

\* A redraw of one axis: matplotlib calls the formatter's
\* _set_orderOfMagnitude with the visible range.
Redraw(a, range) ==
    /\ pc = "done"
    /\ redraws[a] < MaxRedraws
    /\ ax' = [ax EXCEPT !.formatter[a] = _set_orderOfMagnitude(@, range)]
    /\ redraws' = [redraws EXCEPT ![a] = @ + 1]
    /\ UNCHANGED << pc, Z, scale, altairVars >>

\* ------------------------------------------------------------- plot_altair
\* A frequency sweep of m points, one decade apart, rising or falling.
Sweeps(m) == { [i \in 1..m |-> Pow10(i - 1)], [i \in 1..m |-> Pow10(m - i)] }

\* The entries data_dict may hold for one key, with at most m samples: 'f' and
\* 'Z' of one length, and 'fmt' present or not.
Entries(m) ==
    UNION { UNION { UNION {
        { [f |-> fs, Z |-> Zs] } \cup { [f |-> fs, Z |-> Zs, fmt |-> t] : t \in Fmts }
        : fs \in Sweeps(l) } : Zs \in [1..l -> AltairValues] } : l \in 0..m }

\* The key orders a dict over Kinds can have: no key, one key, both keys in
\* either insertion order.
KeyOrders ==
    { << >> } \cup { << k >> : k \in Kinds }
              \cup { p \in Kinds \X Kinds : p[1] # p[2] }

\* The dicts with the given keys and at most m samples in all.
RECURSIVE Dicts(_, _)
Dicts(keys, m) ==
    IF keys = << >> THEN { [keys |-> << >>, val |-> << >>] }
    ELSE UNION { { [keys |-> << keys[1] >> \o d.keys,
                    val |-> (keys[1] :> e) @@ d.val]
                   : d \in Dicts(Tail(keys), m - Len(e.Z)) }
                 : e \in Entries(m) }

\* dict.get(key, default)
get(d, key, default) == IF key \in DOMAIN d THEN d[key] ELSE default

\* pd.DataFrame({'f': f, 'z_real': Z.real, 'z_imag': Z.imag, 'kind': kind,
\* 'fmt': fmt}): one row per index, the scalars repeated.
DataFrame(f, Zs, kind, fmt) ==
    [i \in 1..Len(Zs) |-> [f |-> f[i], z_real |-> Zs[i].real,
                           z_imag |-> Zs[i].imag, kind |-> kind, fmt |-> fmt]]

\* Python's max and min of a non-empty column.
Max(xs) == CHOOSE m \in { xs[i] : i \in 1..Len(xs) } :
              \A i \in 1..Len(xs) : xs[i] <= m
Min(xs) == CHOOSE m \in { xs[i] : i \in 1..Len(xs) } :
              \A i \in 1..Len(xs) : m <= xs[i]

\* Columns of the table.
Col_z_real(df) == [i \in 1..Len(df) |-> df[i].z_real]
Col_z_imag(df) == [i \in 1..Len(df) |-> df[i].z_imag]

\* The group taken without filtering on the tag.
get_group_all(df, t) == df

\* Z_df.groupby('fmt').get_group(t): the rows tagged t, in table order.
get_group(df, t) == SelectSeq(df, LAMBDA r : r.fmt = t)

\* Z_df['fmt'].unique()
unique_fmt(df) == { df[i].fmt : i \in 1..Len(df) }

NoDom == [rng |-> 0, min_x |-> 0, max_x |-> 0, min_y |-> 0, max_y |-> 0]

\* Vega expression functions, on integer data.
pow2(x) == x * x

\* floor(sqrt(v)) between lo and hi, by bisection.
RECURSIVE RootBetween(_, _, _)
RootBetween(v, lo, hi) ==
    IF lo >= hi THEN lo
    ELSE LET mid == (lo + hi + 1) \div 2
         IN  IF mid * mid <= v THEN RootBetween(v, mid, hi)
                               ELSE RootBetween(v, lo, mid - 1)

\* sqrt(v) in hundredths, rounded down.
sqrt(v) == LET r == RootBetween(v, 0, v)
           IN  RootBetween(v * 10000, 100 * r, 100 * r + 99)

RECURSIVE GCD(_, _)
GCD(a, b) == IF b = 0 THEN a ELSE GCD(b, a % b)

Abs(x) == IF x < 0 THEN -x ELSE x
Sign(x) == IF x < 0 THEN -1 ELSE IF x > 0 THEN 1 ELSE 0

\* a / b as JavaScript divides: the quotient in lowest terms with a positive
\* denominator; over 0 it is Infinity (1/0), -Infinity (-1/0) or NaN (0/0).
Quotient(a, b) ==
    IF b = 0 THEN [num |-> Sign(a), den |-> 0]
    ELSE LET g == GCD(Abs(a), Abs(b))
         IN  [num |-> (Sign(b) * a) \div g, den |-> Abs(b) \div g]

\* atan(q): the angle whose tangent is q, as the direction << cos, sin >> it
\* points in, scaled to the shortest integer vector.  atan of a finite q lies
\* strictly inside (-pi/2, pi/2): the cos part is positive.  atan(Infinity)
\* is pi/2, << 0, 1 >>; atan(NaN) is NaN, << 0, 0 >>.
atan(q) == << q.den, q.num >>

\* The angle of the point (re, im) itself, as atan2(im, re) gives it.
atan2(im, re) ==
    LET g == GCD(Abs(im), Abs(re))
    IN  IF g = 0 THEN << 0, 0 >> ELSE << re \div g, im \div g >>

\* -angle
NegAngle(t) == << t[1], -t[2] >>

\* The magnitude with the square root forgotten.
MagNoSqrt(r) == pow2(r.z_real) + pow2(r.z_imag)

\* mag = "sqrt(pow(datum.z_real,2) + pow(datum.z_imag,2))"
Mag(r) == sqrt(pow2(r.z_real) + pow2(r.z_imag))

\* The phase with the quadrant taken into account (a two-argument arctangent).
NegPhaseAtan2(r) == NegAngle(atan2(r.z_imag, r.z_real))

\* neg_phase = "-atan(datum.z_imag/datum.z_real)"
NegPhase(r) == NegAngle(atan(Quotient(r.z_imag, r.z_real)))

\* alt.selection_single(on='mouseover', nearest=True, empty='none',
\* fields=['f'])
nearest == [on |-> "mouseover", nearest |-> TRUE, empty |-> "none",
            fields |-> << "f" >>]

\* The Nyquist sub-chart of one marker style: the rows, the derived
\* neg_z_imag of each row, and the shared domain on both axes.
NyquistChart(df, mark, d) ==
    [mark |-> mark, data |-> df, x |-> "z_real", y |-> "neg_z_imag",
     domain_x |-> << d.min_x, d.max_x >>, domain_y |-> << d.min_y, d.max_y >>,
     calc |-> [i \in 1..Len(df) |-> [neg_z_imag |-> -df[i].z_imag]],
     selection |-> {}, interactive |-> FALSE]

\* The Bode sub-chart of one marker style, before its y channel is chosen.
BodeChart(df, mark) ==
    [mark |-> mark, data |-> df, x |-> "f", y |-> "",
     calc |-> [i \in 1..Len(df) |-> [mag |-> Mag(df[i]),
                                     neg_phase |-> NegPhase(df[i])]],
     selection |-> {}, interactive |-> FALSE]

\* .add_selection(nearest) and .interactive()
add_selection(c, sel) == [c EXCEPT !.selection = @ \cup { sel }]
interactive(c) == [c EXCEPT !.interactive = TRUE]
encode_y(c, field) == [c EXCEPT !.y = field]

\* The '-' branch: mark_line, no selection, not interactive.
LineCharts(df, d) ==
    [nyquist |-> NyquistChart(df, "line", d),
     bode |-> BodeChart(df, "line")]

\* The 'o' branch with the hover left off the Bode sub-chart.
PointChartsNoBodeHover(df, d) ==
    [nyquist |-> interactive(add_selection(NyquistChart(df, "circle", d), nearest)),
     bode |-> BodeChart(df, "circle")]

\* The 'o' branch: mark_circle, the hover selection added, interactive.
PointCharts(df, d) ==
    [nyquist |-> interactive(add_selection(NyquistChart(df, "circle", d), nearest)),
     bode |-> interactive(add_selection(BodeChart(df, "circle"), nearest))]

\* alt.layer(*charts), a & b, a | b
layer(charts) == [layer |-> charts]
vconcat(a, b) == [vconcat |-> << a, b >>]
hconcat(a, b) == [hconcat |-> << a, b >>]

NoChart == hconcat(vconcat(layer(<< >>), layer(<< >>)), layer(<< >>))
EmptyDict == [keys |-> << >>, val |-> << >>]

\* The loop body with the table replaced instead of extended.
AppendedReplace(df, kind) ==
    DataFrame(data_dict.val[kind]["f"], data_dict.val[kind]["Z"], kind,
              get(data_dict.val[kind], "fmt", "o"))

\* The loop body for one key: the dataset's frame appended to the table.
Appended(df, kind) ==
    df \o DataFrame(data_dict.val[kind]["f"], data_dict.val[kind]["Z"], kind,
                    get(data_dict.val[kind], "fmt", "o"))

\* One pass of the accumulation loop.
AppendDataset ==
    /\ pc = "loop"
    /\ n < Len(data_dict.keys)
    /\ Z_df' = Appended(Z_df, data_dict.keys[n + 1])
    /\ n' = n + 1
    /\ UNCHANGED << pc, data_dict, dom, nyquists, bode_mags, bode_phss, chart,
                    nyquistVars >>

\* The shared range anchored at the maxima instead of the minima.
NyquistDomainFromMax(df) ==
    LET xs == Col_z_real(df)
        ys == neg(Col_z_imag(df))
        range_x == Max(xs) - Min(xs)
        range_y == Max(ys) - Min(ys)
        rng == IF range_x >= range_y THEN range_x ELSE range_y
    IN  [rng |-> rng, min_x |-> Max(xs) - rng, max_x |-> Max(xs),
         min_y |-> Max(ys) - rng, max_y |-> Max(ys)]

\* The shared range taken as the smaller of the two ranges.
NyquistDomainSmaller(df) ==
    LET xs == Col_z_real(df)
        ys == neg(Col_z_imag(df))
        range_x == Max(xs) - Min(xs)
        range_y == Max(ys) - Min(ys)
        rng == IF range_x <= range_y THEN range_x ELSE range_y
    IN  [rng |-> rng, min_x |-> Min(xs), max_x |-> Min(xs) + rng,
         min_y |-> Min(ys), max_y |-> Min(ys) + rng]

\* range_x, range_y, rng and the four domain ends.
NyquistDomain(df) ==
    LET xs == Col_z_real(df)
        ys == neg(Col_z_imag(df))
        range_x == Max(xs) - Min(xs)
        range_y == Max(ys) - Min(ys)
        rng == IF range_x >= range_y THEN range_x ELSE range_y
    IN  [rng |-> rng, min_x |-> Min(xs), max_x |-> Min(xs) + rng,
         min_y |-> Min(ys), max_y |-> Min(ys) + rng]

\* After the loop: max() and min() of the columns.  On an empty table max()
\* raises ValueError and the call ends there.
ComputeRange ==
    /\ pc = "loop"
    /\ n = Len(data_dict.keys)
    /\ IF Z_df = << >>
       THEN pc' = "raised" /\ dom' = dom
       ELSE pc' = "line" /\ dom' = NyquistDomain(Z_df)
    /\ UNCHANGED << data_dict, n, Z_df, nyquists, bode_mags, bode_phss, chart,
                    nyquistVars >>

\* if '-' in fmts: ...
LineBranch ==
    /\ pc = "line"
    /\ IF "-" \in unique_fmt(Z_df)
       THEN LET c == LineCharts(get_group(Z_df, "-"), dom)
            IN  /\ nyquists' = Append(nyquists, c.nyquist)
                /\ bode_mags' = Append(bode_mags, encode_y(c.bode, "mag"))
                /\ bode_phss' = Append(bode_phss, encode_y(c.bode, "neg_phase"))
       ELSE UNCHANGED << nyquists, bode_mags, bode_phss >>
    /\ pc' = "point"
    /\ UNCHANGED << data_dict, n, Z_df, dom, chart, nyquistVars >>

\* if 'o' in fmts: ...
PointBranch ==
    /\ pc = "point"
    /\ IF "o" \in unique_fmt(Z_df)
       THEN LET c == PointCharts(get_group(Z_df, "o"), dom)
            IN  /\ nyquists' = Append(nyquists, c.nyquist)
                /\ bode_mags' = Append(bode_mags, encode_y(c.bode, "mag"))
                /\ bode_phss' = Append(bode_phss, encode_y(c.bode, "neg_phase"))
       ELSE UNCHANGED << nyquists, bode_mags, bode_phss >>
    /\ pc' = "compose"
    /\ UNCHANGED << data_dict, n, Z_df, dom, chart, nyquistVars >>

\* full_bode = layer(mags) & layer(phases); return full_bode | layer(nyquists)
Compose ==
    /\ pc = "compose"
    /\ chart' = hconcat(vconcat(layer(bode_mags), layer(bode_phss)),
                        layer(nyquists))
    /\ pc' = "returned"
    /\ UNCHANGED << data_dict, n, Z_df, dom, nyquists, bode_mags, bode_phss,
                    nyquistVars >>

\* ---------------------------------------------------------- specifications
NyquistIdle ==
    /\ Z = << >>
    /\ scale = [num |-> 1, den |-> 1]
    /\ ax = BlankAxes
    /\ redraws = [a \in Axes |-> 0]

AltairIdle ==
    /\ data_dict = EmptyDict
    /\ n = 0
    /\ Z_df = << >>
    /\ dom = NoDom
    /\ nyquists = << >>
    /\ bode_mags = << >>
    /\ bode_phss = << >>
    /\ chart = NoChart

\* A call of plot_nyquist on a fresh Axes, and the redraws that follow it.
InitNyquist ==
    /\ pc = "start"
    /\ Z \in SeqUpTo(NyquistValues, MaxLen)
    /\ scale \in Scales
    /\ ax = BlankAxes
    /\ redraws = [a \in Axes |-> 0]
    /\ AltairIdle

NextNyquist ==
    \/ PlotNyquist
    \/ \E a \in Axes, range \in Ranges : Redraw(a, range)

SpecNyquist == InitNyquist /\ [][NextNyquist]_vars

\* A call of plot_altair.
InitAltair ==
    /\ pc = "loop"
    /\ data_dict \in UNION { Dicts(ks, MaxSamples) : ks \in KeyOrders }
    /\ n = 0
    /\ Z_df = << >>
    /\ dom = NoDom
    /\ nyquists = << >>
    /\ bode_mags = << >>
    /\ bode_phss = << >>
    /\ chart = NoChart
    /\ NyquistIdle

NextAltair ==
    \/ AppendDataset
    \/ ComputeRange
    \/ LineBranch
    \/ PointBranch
    \/ Compose

SpecAltair == InitAltair /\ [][NextAltair]_vars

Init == InitNyquist \/ InitAltair
Next == NextNyquist \/ NextAltair
Spec == Init /\ [][Next]_vars

\* ------------------------------------------------------------------ claims
\* The layers of the returned figure's three panels.
BodeMagLayers == chart.hconcat[1].vconcat[1].layer
BodePhaseLayers == chart.hconcat[1].vconcat[2].layer
NyquistLayers == chart.hconcat[2].layer
Panels == << BodeMagLayers, BodePhaseLayers, NyquistLayers >>

\* The marker-style tag a dataset carries ('o' when it names none).
TagOf(k) == IF "fmt" \in DOMAIN data_dict.val[k] THEN data_dict.val[k]["fmt"] ELSE "o"
KeySet == { data_dict.keys[i] : i \in 1..Len(data_dict.keys) }
HasSamples == \E k \in KeySet : Len(data_dict.val[k]["Z"]) > 0

\* C1: when plot_nyquist has returned, the series drawn on ax has the length
\* of Z, and at every index the horizontal coordinate is Re(Z[i]) and the
\* vertical coordinate is -Im(Z[i]).
C1_NyquistSeries ==
    pc = "done" =>
        /\ DOMAIN ax.x = 1..Len(Z)
        /\ DOMAIN ax.y = 1..Len(Z)
        /\ \A i \in 1..Len(Z) : ax.x[i] = Z[i].real /\ ax.y[i] + Z[i].imag = 0

\* The spec's example: Z = [100+0j, 80-20j, 60-40j] is drawn as (100,0),
\* (80,20), (60,40).
C1_Witness ==
    /\ pc = "done"
    /\ Z = ExampleZ
    /\ ax.x = << 100, 80, 60 >>
    /\ ax.y = << 0, 20, 40 >>

\* C3: on either axis, once _set_orderOfMagnitude has been called (whatever
\* the ranges it was called with, and however often), orderOfMagnitude is
\* the order_of_mag the formatter was constructed with.
C3_FixedOrder ==
    \A a \in Axes :
        redraws[a] > 0 =>
            ax.formatter[a].orderOfMagnitude = ax.formatter[a]._order_of_mag

\* Two redraws of the x axis and one of the y axis of a plot made with
\* scale = 100: both exponents stay at -2.
C3_Witness ==
    /\ redraws["xaxis"] >= 2
    /\ redraws["yaxis"] >= 1
    /\ scale = [num |-> 100, den |-> 1]
    /\ ax.formatter["xaxis"].orderOfMagnitude = -2
    /\ ax.formatter["yaxis"].orderOfMagnitude = -2

RangeDone == pc \in { "line", "point", "compose", "returned" }
Rows == 1..Len(Z_df)

\* C2: once the Nyquist domain is computed, both axes have the span rng;
\* rng is the larger of the range of the real parts and the range of the
\* negated imaginary parts over all rows (no two rows lie further apart in
\* either dimension, and two rows lie exactly that far apart in one); min_x
\* is the least real part and min_y the least negated imaginary part; and
\* every Nyquist layer is given exactly this domain.
C2_SquareRange ==
    RangeDone =>
        /\ dom.max_x - dom.min_x = dom.rng
        /\ dom.max_y - dom.min_y = dom.rng
        /\ \A i, j \in Rows :
              /\ Z_df[i].z_real - Z_df[j].z_real <= dom.rng
              /\ Z_df[j].z_imag - Z_df[i].z_imag <= dom.rng
        /\ \E i, j \in Rows :
              \/ Z_df[i].z_real - Z_df[j].z_real = dom.rng
              \/ Z_df[j].z_imag - Z_df[i].z_imag = dom.rng
        /\ \A i \in Rows : dom.min_x <= Z_df[i].z_real /\ dom.min_y <= -Z_df[i].z_imag
        /\ \E i \in Rows : dom.min_x = Z_df[i].z_real
        /\ \E i \in Rows : dom.min_y = -Z_df[i].z_imag
        /\ \A l \in 1..Len(nyquists) :
              /\ nyquists[l].domain_x = << dom.min_x, dom.max_x >>
              /\ nyquists[l].domain_y = << dom.min_y, dom.max_y >>

\* 80+20j and 0-40j: the real parts range over 80, the negated imaginary parts
\* over 60, and both axes get the span 80, from 0 and from -20.
C2_Witness ==
    /\ pc = "returned"
    /\ \E i, j \in Rows :
          /\ Z_df[i].z_real = 80 /\ Z_df[i].z_imag = 20
          /\ Z_df[j].z_real = 0 /\ Z_df[j].z_imag = -40
    /\ dom = [rng |-> 80, min_x |-> 0, max_x |-> 80, min_y |-> -20, max_y |-> 60]
    /\ Len(NyquistLayers) >= 1

\* C10: once the Nyquist domain is computed, every row of the table, drawn
\* or not, lies inside it in both dimensions, and the domain is the one the
\* line and the point Nyquist layers are given.
C10_RowsInsideDomain ==
    RangeDone =>
        /\ \A i \in Rows :
              /\ dom.min_x <= Z_df[i].z_real /\ Z_df[i].z_real <= dom.max_x
              /\ dom.min_y <= -Z_df[i].z_imag /\ -Z_df[i].z_imag <= dom.max_y
        /\ \A l \in 1..Len(nyquists) :
              /\ nyquists[l].domain_x = << dom.min_x, dom.max_x >>
              /\ nyquists[l].domain_y = << dom.min_y, dom.max_y >>

\* A figure with a drawn layer and a row of an unrecognized tag that sets the
\* upper end of the range.
C10_Witness ==
    /\ pc = "returned"
    /\ Len(NyquistLayers) = 1
    /\ \E i \in Rows : Z_df[i].fmt = "x" /\ Z_df[i].z_real = dom.max_x
    /\ dom.rng > 0

\* C5: in the returned figure, if every dataset is line-tagged no layer of
\* any panel has a selection or is interactive; if every dataset is
\* point-tagged ('o', named or by default) each of the three panels has a
\* layer, and every layer has the hover selection and is interactive.
C5_Interactivity ==
    pc = "returned" =>
        /\ (\A k \in KeySet : TagOf(k) = "-") =>
              \A p \in 1..3 : \A l \in 1..Len(Panels[p]) :
                  Panels[p][l].selection = {} /\ ~Panels[p][l].interactive
        /\ (\A k \in KeySet : TagOf(k) = "o") =>
              \A p \in 1..3 :
                  /\ Len(Panels[p]) >= 1
                  /\ \A l \in 1..Len(Panels[p]) :
                        nearest \in Panels[p][l].selection /\ Panels[p][l].interactive

\* Two point-tagged datasets, one of them by default: three interactive panels.
C5_Witness ==
    /\ pc = "returned"
    /\ Len(data_dict.keys) = 2
    /\ \A k \in KeySet : TagOf(k) = "o"
    /\ \E k \in KeySet : "fmt" \notin DOMAIN data_dict.val[k]
    /\ \A p \in 1..3 : Len(Panels[p]) = 1 /\ Panels[p][1].interactive

\* What the figure draws of each marker style: a panel has one layer of mark m
\* exactly when some row carries m's tag, and that layer holds exactly the
\* rows of that tag.
LayersFollowTags ==
    \A p \in 1..3 :
        /\ \A l \in 1..Len(Panels[p]) :
              /\ Panels[p][l].mark \in { "line", "circle" }
              /\ \A i \in 1..Len(Panels[p][l].data) :
                    Panels[p][l].data[i].fmt =
                        (IF Panels[p][l].mark = "line" THEN "-" ELSE "o")
        /\ \A t \in { "-", "o" } :
              LET m == IF t = "-" THEN "line" ELSE "circle"
                  tagged == { i \in Rows : Z_df[i].fmt = t }
                  drawn == { l \in 1..Len(Panels[p]) : Panels[p][l].mark = m }
              IN  /\ Cardinality(drawn) = (IF tagged = {} THEN 0 ELSE 1)
                  /\ \A l \in drawn : Len(Panels[p][l].data) = Cardinality(tagged)

\* C6 as stated: whatever the collection, a call on a collection that holds a
\* dataset of an unrecognized tag ends by returning the figure, never by
\* raising, and the figure draws only the recognized styles present.
C6_AnyCollectionReturns ==
    (pc \in { "returned", "raised" } /\ \E k \in KeySet : TagOf(k) \notin { "-", "o" })
        => (pc = "returned" /\ LayersFollowTags)

\* C6, amended: a call on a collection that holds at least one sample ends
\* by returning the figure, and the figure draws only the recognized styles
\* present (no layer at all when no dataset has a recognized tag); a call on a
\* collection without any sample raises, at max() of the empty table.
C6_ReturnsWhenSamples ==
    pc \in { "returned", "raised" } =>
        /\ (pc = "returned") = HasSamples
        /\ pc = "returned" => LayersFollowTags

\* Only unrecognized tags: the figure is returned with three empty panels.
C6_Witness ==
    /\ pc = "returned"
    /\ Len(data_dict.keys) = 2
    /\ \A k \in KeySet : TagOf(k) = "x"
    /\ Len(Z_df) = 2
    /\ \A p \in 1..3 : Panels[p] = << >>

\* The row sample i of dataset k is flattened to.
RowOf(k, i) ==
    [f |-> data_dict.val[k]["f"][i], z_real |-> data_dict.val[k]["Z"][i].real,
     z_imag |-> data_dict.val[k]["Z"][i].imag, kind |-> k, fmt |-> TagOf(k)]
Samples == { p \in KeySet \X (1..MaxSamples) : p[2] <= Len(data_dict.val[p[1]]["Z"]) }

\* C7: when the loop has visited every key, the table has one row per sample
\* of every dataset: as many rows as samples, and every row occurs in the
\* table as often as samples flatten to it.  The right-hand side reads
\* data_dict as a set of keys, so the rows do not depend on the visiting order.
C7_Flattened ==
    n = Len(data_dict.keys) =>
        /\ Len(Z_df) = Cardinality(Samples)
        /\ \A r \in { RowOf(p[1], p[2]) : p \in Samples } \cup { Z_df[i] : i \in Rows } :
              Cardinality({ i \in Rows : Z_df[i] = r })
                  = Cardinality({ p \in Samples : RowOf(p[1], p[2]) = r })

\* Key "b" inserted before key "a", one sample each: two rows, b's first.
C7_Witness ==
    /\ n = 2
    /\ data_dict.keys = << "b", "a" >>
    /\ Len(Z_df) = 2
    /\ Z_df[1].kind = "b" /\ Z_df[2].kind = "a"
    /\ Z_df[1].fmt = "-" /\ Z_df[2].fmt = "o"

\* C8: in every Bode layer of the returned figure the magnitude of a row is
\* sqrt(real^2 + imag^2) of that row, to the hundredth (m/100 <= sqrt <
\* (m+1)/100); it is never negative, and rows that are each other's negation or
\* conjugate have the same magnitude.
C8_Magnitude ==
    pc = "returned" =>
        /\ \A l \in 1..Len(BodeMagLayers) : BodeMagLayers[l].y = "mag"
        /\ \A l \in 1..Len(BodeMagLayers) : \A i \in 1..Len(BodeMagLayers[l].data) :
              LET r == BodeMagLayers[l].data[i]
                  m == BodeMagLayers[l].calc[i].mag
                  sq == r.z_real * r.z_real + r.z_imag * r.z_imag
              IN  /\ m >= 0
                  /\ m * m <= 10000 * sq
                  /\ 10000 * sq < (m + 1) * (m + 1)
                  /\ \A k \in 1..Len(BodeMagLayers) : \A j \in 1..Len(BodeMagLayers[k].data) :
                        LET q == BodeMagLayers[k].data[j]
                        IN  (/\ q.z_real \in { r.z_real, -r.z_real }
                             /\ q.z_imag \in { r.z_imag, -r.z_imag })
                                => BodeMagLayers[k].calc[j].mag = m

\* 80-20j and its negation in a Bode magnitude layer, both with 82.46.
C8_Witness ==
    /\ pc = "returned"
    /\ \E l \in 1..Len(BodeMagLayers) : \E i, j \in 1..Len(BodeMagLayers[l].data) :
          /\ BodeMagLayers[l].data[i].z_real = 80
          /\ BodeMagLayers[l].data[i].z_imag = -20
          /\ BodeMagLayers[l].data[j].z_real = -80
          /\ BodeMagLayers[l].data[j].z_imag = 20
          /\ BodeMagLayers[l].calc[i].mag = 8246
          /\ BodeMagLayers[l].calc[j].mag = 8246

====
